---- MODULE Spec2Model ----
(***************************************************************************)
(* A model of package bank (src/bank.go): the ledger of named accounts,    *)
(* its transactions (Deposit, Withdraw, Transfer), and its persistence     *)
(* (Save, Load) through a gob snapshot in the file "bank.data".            *)
(*                                                                         *)
(* An *Account is a handle: an index into heap, the sequence of all        *)
(* Account structs allocated so far.  The registry (the package variable   *)
(* accounts) maps names to handles; a caller may keep a handle to an       *)
(* account that the registry no longer holds.                              *)
(***************************************************************************)
EXTENDS Integers, Sequences, FiniteSets, TLC

\* Width of Go's int in the model (64 in the build); arithmetic wraps.
IntBits == 3
\* Number of calls of a run that change the ledger: NewAccount and the
\* successful Deposit, Withdraw and Transfer.  It also bounds the Account
\* structs of one process.
MaxCalls == 4
\* The same bound for the runs that also save and load.
MaxStoreCalls == 3
\* Number of calls made on one closure of History.
MaxReads == 3
\* Number of calls of a run with goroutines: NewAccount and the calls of
\* Deposit and Withdraw that were started.
MaxRaceCalls == 4

MinInt == -(2 ^ (IntBits - 1))
MaxInt == 2 ^ (IntBits - 1) - 1

\* Go's int arithmetic: the result of + and - wraps around (two's complement).
Wrap(x) == ((x - MinInt) % (2 ^ IntBits)) + MinInt

\* Account names passed to NewAccount; "" is Go's zero string.
Names == {"", "pike"}
\* Amounts passed to Deposit, Withdraw and Transfer.
Amounts == {-1, 0, 1, MaxInt}
\* The amounts of the runs that also save and load.
StoreAmounts == {0, 1}
\* The amounts of the runs with goroutines.
RaceAmounts == {-1, 1}

VARIABLES
    heap,       \* Seq of [Name, Bal, Hist]: every Account allocated, by handle
    accounts,   \* the registry: [isNil, map], map: name -> handle
    file,       \* bank.data: [exists, data]
    calls,      \* the calls so far that changed the ledger
    last,       \* the last call: its arguments, results and error
    reader,     \* the closure returned by History that the caller holds
    threads     \* the goroutines that run a transaction step by step

vars == <<heap, accounts, file, calls, last, reader, threads>>

Handles == DOMAIN heap

\* type history struct { Amt, Bal int }
history(amt, bal) == [Amt |-> amt, Bal |-> bal]

\* &Account{Name: s}: balance 0, Hist nil
Account(s) == [Name |-> s, Bal |-> 0, Hist |-> <<>>]

\* A call: op(s) or op(a, m) or op(a, b, m), what it returned (r1, r2) and
\* its error ("nil" when it succeeded, "panic" when the call panicked).
\* more is the third result of a History reader, list the lines of
\* ListAccounts.
Call(op, s, a, b, m, r1, r2, err) ==
    [op |-> op, s |-> s, a |-> a, b |-> b, m |-> m,
     r1 |-> r1, r2 |-> r2, err |-> err, more |-> FALSE, list |-> <<>>]

NoCall == Call("none", "", 0, 0, 0, 0, 0, "nil")

\* var accounts map[string]*Account: nil until NewAccount or Load makes it
NilAccounts == [isNil |-> TRUE, map |-> <<>>]

\* No closure of History is held.
NoReader ==
    [held |-> FALSE, a |-> 0, i |-> 0, more |-> TRUE,
     n |-> 0, k |-> 0, ended |-> FALSE]

\* The goroutines that may run a transaction at the same time.
Tids == {1, 2}

\* A goroutine between two calls.  In a call, pc is the statement it is at,
\* bal the balance it has loaded, hist the slice it has loaded and rec the
\* record it has built.
Idle ==
    [pc |-> "idle", op |-> "none", a |-> 0, m |-> 0,
     bal |-> 0, hist |-> <<>>, rec |-> history(0, 0)]

\* No goroutine runs.  overlapped observes the run: whether a call has
\* started on an account while another call on that account was running.
NoThreads == [run |-> [t \in Tids |-> Idle], overlapped |-> FALSE]

----------------------------------------------------------------------------
\* The registry

\* A faulty NewAccount: a name already registered keeps its account.
NewAccountOpKeep(accts, hp, s) ==
    IF s \in DOMAIN accts.map
    THEN [heap |-> hp, accounts |-> accts, r1 |-> accts.map[s]]
    ELSE LET a == Len(hp) + 1
             m == accts.map
         IN [heap |-> Append(hp, Account(s)),
             accounts |-> [isNil |-> FALSE,
                           map |-> [k \in DOMAIN m \cup {s} |->
                                      IF k = s THEN a ELSE m[k]]],
             r1 |-> a]

\* A faulty NewAccount: the account that the new one replaces is emptied.
NewAccountOpReset(accts, hp, s) ==
    LET a == Len(hp) + 1
        m == accts.map
        old == IF s \in DOMAIN m
               THEN [hp EXCEPT ![m[s]] = Account(s)]
               ELSE hp
    IN [heap |-> Append(old, Account(s)),
        accounts |-> [isNil |-> FALSE,
                      map |-> [k \in DOMAIN m \cup {s} |->
                                 IF k = s THEN a ELSE m[k]]],
        r1 |-> a]

\* accounts[s] = a, on a map made if it was nil
NewAccountOp(accts, hp, s) ==
    LET a == Len(hp) + 1
        m == accts.map
    IN [heap |-> Append(hp, Account(s)),
        accounts |-> [isNil |-> FALSE,
                      map |-> [k \in DOMAIN m \cup {s} |->
                                 IF k = s THEN a ELSE m[k]]],
        r1 |-> a]

----------------------------------------------------------------------------
\* The transactions

\* A faulty Deposit: the record takes the place of the history.
DepositOpOverwrite(hp, a, m) ==
    IF m < 0
    THEN [heap |-> hp, r1 |-> hp[a].Bal, err |-> "InvalidAmount"]
    ELSE LET bal == Wrap(hp[a].Bal + m)
         IN [heap |-> [hp EXCEPT ![a] = [@ EXCEPT
                          !.Bal = bal,
                          !.Hist = <<history(m, bal)>>]],
             r1 |-> bal, err |-> "nil"]

\* A faulty Deposit: the record is appended before the balance is updated.
DepositOpStaleRecord(hp, a, m) ==
    IF m < 0
    THEN [heap |-> hp, r1 |-> hp[a].Bal, err |-> "InvalidAmount"]
    ELSE LET bal == Wrap(hp[a].Bal + m)
         IN [heap |-> [hp EXCEPT ![a] = [@ EXCEPT
                          !.Bal = bal,
                          !.Hist = Append(@, history(m, hp[a].Bal))]],
             r1 |-> bal, err |-> "nil"]

\* A faulty Deposit: an amount of 0 is refused.
DepositOpRejectZero(hp, a, m) ==
    IF m <= 0
    THEN [heap |-> hp, r1 |-> hp[a].Bal, err |-> "InvalidAmount"]
    ELSE LET bal == Wrap(hp[a].Bal + m)
         IN [heap |-> [hp EXCEPT ![a] = [@ EXCEPT
                          !.Bal = bal,
                          !.Hist = Append(@, history(m, bal))]],
             r1 |-> bal, err |-> "nil"]

\* if m < 0 { return a.Bal, error }; a.Bal += m; a.Hist = append(...)
DepositOp(hp, a, m) ==
    IF m < 0
    THEN [heap |-> hp, r1 |-> hp[a].Bal, err |-> "InvalidAmount"]
    ELSE LET bal == Wrap(hp[a].Bal + m)
         IN [heap |-> [hp EXCEPT ![a] = [@ EXCEPT
                          !.Bal = bal,
                          !.Hist = Append(@, history(m, bal))]],
             r1 |-> bal, err |-> "nil"]

\* A faulty Withdraw: the balance is debited before the funds are checked.
WithdrawOpDebitFirst(hp, a, m) ==
    IF m < 0
    THEN [heap |-> hp, r1 |-> hp[a].Bal, err |-> "InvalidAmount"]
    ELSE LET bal == Wrap(hp[a].Bal - m)
         IN IF m > hp[a].Bal
            THEN [heap |-> [hp EXCEPT ![a].Bal = bal],
                  r1 |-> bal, err |-> "InsufficientFunds"]
            ELSE [heap |-> [hp EXCEPT ![a] = [@ EXCEPT
                             !.Bal = bal,
                             !.Hist = Append(@, history(Wrap(-m), bal))]],
                  r1 |-> bal, err |-> "nil"]

\* A faulty Withdraw: the whole balance cannot be withdrawn (m >= a.Bal).
WithdrawOpStrict(hp, a, m) ==
    IF m < 0
    THEN [heap |-> hp, r1 |-> hp[a].Bal, err |-> "InvalidAmount"]
    ELSE IF m >= hp[a].Bal
    THEN [heap |-> hp, r1 |-> hp[a].Bal, err |-> "InsufficientFunds"]
    ELSE LET bal == Wrap(hp[a].Bal - m)
         IN [heap |-> [hp EXCEPT ![a] = [@ EXCEPT
                          !.Bal = bal,
                          !.Hist = Append(@, history(Wrap(-m), bal))]],
             r1 |-> bal, err |-> "nil"]

\* A faulty Withdraw: a refused withdrawal returns 0, as Transfer does.
WithdrawOpZeroOnFail(hp, a, m) ==
    IF m < 0
    THEN [heap |-> hp, r1 |-> hp[a].Bal, err |-> "InvalidAmount"]
    ELSE IF m > hp[a].Bal
    THEN [heap |-> hp, r1 |-> 0, err |-> "InsufficientFunds"]
    ELSE LET bal == Wrap(hp[a].Bal - m)
         IN [heap |-> [hp EXCEPT ![a] = [@ EXCEPT
                          !.Bal = bal,
                          !.Hist = Append(@, history(Wrap(-m), bal))]],
             r1 |-> bal, err |-> "nil"]

\* A faulty Withdraw: the balance is not compared with the amount.
WithdrawOpNoFundsCheck(hp, a, m) ==
    IF m < 0
    THEN [heap |-> hp, r1 |-> hp[a].Bal, err |-> "InvalidAmount"]
    ELSE LET bal == Wrap(hp[a].Bal - m)
         IN [heap |-> [hp EXCEPT ![a] = [@ EXCEPT
                          !.Bal = bal,
                          !.Hist = Append(@, history(Wrap(-m), bal))]],
             r1 |-> bal, err |-> "nil"]

\* The two checks in order, then a.Bal -= m and the append of {-m, a.Bal}.
WithdrawOp(hp, a, m) ==
    IF m < 0
    THEN [heap |-> hp, r1 |-> hp[a].Bal, err |-> "InvalidAmount"]
    ELSE IF m > hp[a].Bal
    THEN [heap |-> hp, r1 |-> hp[a].Bal, err |-> "InsufficientFunds"]
    ELSE LET bal == Wrap(hp[a].Bal - m)
         IN [heap |-> [hp EXCEPT ![a] = [@ EXCEPT
                          !.Bal = bal,
                          !.Hist = Append(@, history(Wrap(-m), bal))]],
             r1 |-> bal, err |-> "nil"]

\* A faulty Transfer: a refused transfer returns both balances.
TransferOpBalancesOnFail(hp, a, b, m) ==
    IF m < 0 \/ m > hp[a].Bal
    THEN [heap |-> hp, r1 |-> hp[a].Bal, r2 |-> hp[b].Bal,
          err |-> IF m < 0 THEN "InvalidAmount" ELSE "InsufficientFunds"]
    ELSE LET h1 == [hp EXCEPT ![a].Bal = Wrap(@ - m)]
             h2 == [h1 EXCEPT ![b].Bal = Wrap(@ + m)]
             h3 == [h2 EXCEPT ![a].Hist =
                        Append(@, history(Wrap(-m), h2[a].Bal))]
             h4 == [h3 EXCEPT ![b].Hist =
                        Append(@, history(m, h3[b].Bal))]
         IN [heap |-> h4, r1 |-> h4[a].Bal, r2 |-> h4[b].Bal, err |-> "nil"]

\* A faulty Transfer: the destination is not credited.
TransferOpDebitOnly(hp, a, b, m) ==
    IF m < 0
    THEN [heap |-> hp, r1 |-> hp[a].Bal, r2 |-> hp[b].Bal,
          err |-> "InvalidAmount"]
    ELSE IF m > hp[a].Bal
    THEN [heap |-> hp, r1 |-> 0, r2 |-> hp[a].Bal,
          err |-> "InsufficientFunds"]
    ELSE LET h1 == [hp EXCEPT ![a].Bal = Wrap(@ - m)]
             h3 == [h1 EXCEPT ![a].Hist =
                        Append(@, history(Wrap(-m), h1[a].Bal))]
             h4 == [h3 EXCEPT ![b].Hist =
                        Append(@, history(m, h3[b].Bal))]
         IN [heap |-> h4, r1 |-> h4[a].Bal, r2 |-> h4[b].Bal, err |-> "nil"]

\* The four assignments run in order, on handles that may be the same.
TransferOp(hp, a, b, m) ==
    IF m < 0
    THEN [heap |-> hp, r1 |-> hp[a].Bal, r2 |-> hp[b].Bal,
          err |-> "InvalidAmount"]
    ELSE IF m > hp[a].Bal
    THEN [heap |-> hp, r1 |-> 0, r2 |-> hp[a].Bal,
          err |-> "InsufficientFunds"]
    ELSE LET h1 == [hp EXCEPT ![a].Bal = Wrap(@ - m)]
             h2 == [h1 EXCEPT ![b].Bal = Wrap(@ + m)]
             h3 == [h2 EXCEPT ![a].Hist =
                        Append(@, history(Wrap(-m), h2[a].Bal))]
             h4 == [h3 EXCEPT ![b].Hist =
                        Append(@, history(m, h3[b].Bal))]
         IN [heap |-> h4, r1 |-> h4[a].Bal, r2 |-> h4[b].Bal, err |-> "nil"]

----------------------------------------------------------------------------
\* Persistence: the gob stream of the registry, as a sequence of tokens

\* A struct: each non-zero field as <<delta of its number, value>>; 0 ends it.
RECURSIVE EncFields(_, _, _)
EncFields(fs, i, prev) ==
    IF i > Len(fs) THEN <<0>>
    ELSE IF fs[i].zero THEN EncFields(fs, i + 1, prev)
    ELSE <<(i - 1) - prev>> \o fs[i].toks \o EncFields(fs, i + 1, i - 1)

EncHistory(h) ==
    EncFields(<<[zero |-> h.Amt = 0, toks |-> <<h.Amt>>],
                [zero |-> h.Bal = 0, toks |-> <<h.Bal>>]>>, 1, -1)

\* A slice: its length, then its elements in order.
RECURSIVE EncSlice(_)
EncSlice(hist) ==
    IF hist = <<>> THEN <<>> ELSE EncHistory(Head(hist)) \o EncSlice(Tail(hist))

EncAccount(acc) ==
    EncFields(<<[zero |-> acc.Name = "", toks |-> <<acc.Name>>],
                [zero |-> acc.Bal = 0, toks |-> <<acc.Bal>>],
                [zero |-> Len(acc.Hist) = 0,
                 toks |-> <<Len(acc.Hist)>> \o EncSlice(acc.Hist)]>>, 1, -1)

\* A map: its length, then key and element of each entry, in the order the
\* map's iteration yields them.
RECURSIVE EncMap(_, _, _)
EncMap(m, hp, order) ==
    IF order = <<>> THEN <<>>
    ELSE <<Head(order)>> \o EncAccount(hp[m[Head(order)]])
         \o EncMap(m, hp, Tail(order))

\* One message: its length, then the value.  A nil map is sent as an empty one.
Encode(accts, hp, order) ==
    LET body == <<Len(order)>> \o EncMap(accts.map, hp, order)
    IN <<Len(body)>> \o body

\* The orders in which a map with key set S can be iterated.
Orders(S) ==
    {o \in [1..Cardinality(S) -> S] : \A i, j \in DOMAIN o : o[i] = o[j] => i = j}

RECURSIVE DecHistoryFields(_, _, _)
DecHistoryFields(s, prev, val) ==
    IF Head(s) = 0 THEN [val |-> val, rest |-> Tail(s)]
    ELSE LET f == prev + Head(s)
         IN DecHistoryFields(Tail(Tail(s)), f,
                IF f = 0 THEN [val EXCEPT !.Amt = s[2]]
                         ELSE [val EXCEPT !.Bal = s[2]])

DecHistory(s) == DecHistoryFields(s, -1, history(0, 0))

RECURSIVE DecSlice(_, _, _)
DecSlice(s, n, hist) ==
    IF n = 0 THEN [val |-> hist, rest |-> s]
    ELSE LET r == DecHistory(s)
         IN DecSlice(r.rest, n - 1, Append(hist, r.val))

RECURSIVE DecAccountFields(_, _, _)
DecAccountFields(s, prev, val) ==
    IF Head(s) = 0 THEN [val |-> val, rest |-> Tail(s)]
    ELSE LET f == prev + Head(s)
         IN IF f = 0
            THEN DecAccountFields(Tail(Tail(s)), f, [val EXCEPT !.Name = s[2]])
            ELSE IF f = 1
            THEN DecAccountFields(Tail(Tail(s)), f, [val EXCEPT !.Bal = s[2]])
            ELSE LET r == DecSlice(Tail(Tail(s)), s[2], <<>>)
                 IN DecAccountFields(r.rest, f, [val EXCEPT !.Hist = r.val])

\* An element is decoded into a newly allocated, zeroed Account.
DecAccount(s) == DecAccountFields(s, -1, Account(""))

\* Each entry is set in the map m it is given: the keys m holds and the
\* stream does not name stay.
RECURSIVE DecMap(_, _, _, _)
DecMap(s, n, m, hp) ==
    IF n = 0 THEN [map |-> m, heap |-> hp]
    ELSE LET key == Head(s)
             r == DecAccount(Tail(s))
             a == Len(hp) + 1
         IN DecMap(r.rest, n - 1,
                   [k \in DOMAIN m \cup {key} |-> IF k = key THEN a ELSE m[k]],
                   Append(hp, r.val))

\* Decode(&accounts): reads the first message of the stream.
Decode(data, accts, hp) ==
    LET body == SubSeq(data, 2, 1 + data[1])
        r == DecMap(Tail(body), body[1], accts.map, hp)
    IN [accounts |-> [isNil |-> FALSE, map |-> r.map], heap |-> r.heap]

\* A faulty Save: the file is opened with O_APPEND.
WriteFileAppend(f, data) ==
    [exists |-> TRUE, data |-> f.data \o data]

\* The file is opened without O_TRUNC: the stream overwrites the file's
\* first bytes and what lies beyond it stays.
WriteFile(f, data) ==
    [exists |-> TRUE,
     data |-> data \o SubSeq(f.data, Len(data) + 1, Len(f.data))]

\* What lies in the file beyond its first message.
Stale(f) == SubSeq(f.data, 2 + f.data[1], Len(f.data))

\* The model keeps at most one layer of stale data beyond the snapshot.
OneStaleLayer(f, g) ==
    Stale(g) # <<>> => (~f.exists \/ Stale(f) = <<>>)

SaveOp(f, accts, hp, order) == WriteFile(f, Encode(accts, hp, order))

LoadOp(f, accts, hp) ==
    IF ~f.exists
    THEN [accounts |-> accts, heap |-> hp]
    ELSE Decode(f.data, accts, hp)

----------------------------------------------------------------------------
\* Lookup, listing and the history reader

\* A faulty GetAccount: it panics while the registry is nil.
GetAccountOpNilPanics(accts, name) ==
    IF accts.isNil THEN [r1 |-> 0, err |-> "panic"]
    ELSE IF name \in DOMAIN accts.map
         THEN [r1 |-> accts.map[name], err |-> "nil"]
         ELSE [r1 |-> 0, err |-> "NotFound"]

\* accnt, ok := accounts[name]: reading a nil map yields ok = false.
\* The nil *Account is handle 0.
GetAccountOp(accts, name) ==
    IF name \in DOMAIN accts.map
    THEN [r1 |-> accts.map[name], err |-> "nil"]
    ELSE [r1 |-> 0, err |-> "NotFound"]

\* The string of ListAccounts: the line "Accounts:" and then, in the order
\* in which range visits the map, one line "Account: %s, balance: %d" for
\* each entry, kept as the pair of values it prints.
ListAccountsOp(accts, hp, order) ==
    <<"Accounts:">> \o
    [j \in 1..Len(order) |->
        [Name |-> hp[accts.map[order[j]]].Name,
         Bal |-> hp[accts.map[order[j]]].Bal]]

\* History(a): the closure with its captured a, i := 0 and more := true.
\* n, k and ended observe the closure: the length of a's history when
\* History was called, the number of calls of the closure so far, and
\* whether one of them has returned more = false.
HistoryOp(hp, a) ==
    [held |-> TRUE, a |-> a, i |-> 0, more |-> TRUE,
     n |-> Len(hp[a].Hist), k |-> 0, ended |-> FALSE]

\* A faulty closure: it reports more = false one record early.
ReadOpEarlyStop(hp, r) ==
    LET hist == hp[r.a].Hist
        called == [r EXCEPT !.k = @ + 1]
    IN IF Len(hist) = 0
       THEN [reader |-> [called EXCEPT !.ended = TRUE],
             r1 |-> 0, r2 |-> 0, more |-> FALSE, err |-> "nil"]
       ELSE LET more == IF r.i >= Len(hist) - 2 THEN FALSE ELSE r.more
            IN IF r.i >= Len(hist)
               THEN [reader |-> [called EXCEPT !.more = more],
                     r1 |-> 0, r2 |-> 0, more |-> FALSE, err |-> "panic"]
               ELSE [reader |-> [called EXCEPT !.more = more, !.i = @ + 1,
                                                !.ended = @ \/ ~more],
                     r1 |-> hist[r.i + 1].Amt, r2 |-> hist[r.i + 1].Bal,
                     more |-> more, err |-> "nil"]

\* One call of the closure.  Go's a.Hist[i] is hist[i + 1] here; the index
\* expression panics when i is len(a.Hist), after more has been assigned
\* and before i++.
ReadOp(hp, r) ==
    LET hist == hp[r.a].Hist
        called == [r EXCEPT !.k = @ + 1]
    IN IF Len(hist) = 0
       THEN [reader |-> [called EXCEPT !.ended = TRUE],
             r1 |-> 0, r2 |-> 0, more |-> FALSE, err |-> "nil"]
       ELSE LET more == IF r.i >= Len(hist) - 1 THEN FALSE ELSE r.more
            IN IF r.i >= Len(hist)
               THEN [reader |-> [called EXCEPT !.more = more],
                     r1 |-> 0, r2 |-> 0, more |-> FALSE, err |-> "panic"]
               ELSE [reader |-> [called EXCEPT !.more = more, !.i = @ + 1,
                                                !.ended = @ \/ ~more],
                     r1 |-> hist[r.i + 1].Amt, r2 |-> hist[r.i + 1].Bal,
                     more |-> more, err |-> "nil"]

----------------------------------------------------------------------------
\* Deposit and Withdraw, one read or write of the account at a time

\* A faulty store: the amount is added to the balance in memory, not to
\* the balance that was loaded.
StoreBalOpAddInPlace(hp, a, bal, d) ==
    [hp EXCEPT ![a].Bal = Wrap(@ + bal + d)]

\* a.Bal += m, a.Bal -= m: the store of the loaded balance plus d.
StoreBalOp(hp, a, bal, d) == [hp EXCEPT ![a].Bal = Wrap(bal + d)]

\* a.Hist = append(a.Hist, history{...}): the store of the slice that was
\* loaded, with the record at its end.
StoreHistOp(hp, a, hist, rec) == [hp EXCEPT ![a].Hist = Append(hist, rec)]

\* The amount that the call of thread th adds to the balance and records.
Delta(th) == IF th.op = "Deposit" THEN th.m ELSE Wrap(-th.m)

----------------------------------------------------------------------------
\* The actions: one per call of the API

Init ==
    /\ heap = <<>>
    /\ accounts = NilAccounts
    /\ file = [exists |-> FALSE, data |-> <<>>]
    /\ calls = 0
    /\ last = NoCall
    /\ reader = NoReader
    /\ threads = NoThreads

NewAccount(Max) ==
    \E s \in Names :
        /\ LET r == NewAccountOp(accounts, heap, s)
           IN /\ calls < Max
              /\ calls' = calls + 1
              /\ heap' = r.heap
              /\ accounts' = r.accounts
              /\ last' = Call("NewAccount", s, 0, 0, 0, r.r1, 0, "nil")
        /\ UNCHANGED <<file, reader, threads>>

Deposit(Amts, Max) ==
    \E a \in Handles, m \in Amts :
        LET r == DepositOp(heap, a, m)
        IN /\ calls' = (IF r.err = "nil" THEN calls + 1 ELSE calls)
           /\ calls' <= Max
           /\ heap' = r.heap
           /\ last' = Call("Deposit", "", a, 0, m, r.r1, 0, r.err)
           /\ UNCHANGED <<accounts, file, reader, threads>>

Withdraw(Amts, Max) ==
    \E a \in Handles, m \in Amts :
        LET r == WithdrawOp(heap, a, m)
        IN /\ calls' = (IF r.err = "nil" THEN calls + 1 ELSE calls)
           /\ calls' <= Max
           /\ heap' = r.heap
           /\ last' = Call("Withdraw", "", a, 0, m, r.r1, 0, r.err)
           /\ UNCHANGED <<accounts, file, reader, threads>>

Transfer(Amts, Max) ==
    \E a \in Handles, b \in Handles, m \in Amts :
        LET r == TransferOp(heap, a, b, m)
        IN /\ calls' = (IF r.err = "nil" THEN calls + 1 ELSE calls)
           /\ calls' <= Max
           /\ heap' = r.heap
           /\ last' = Call("Transfer", "", a, b, m, r.r1, r.r2, r.err)
           /\ UNCHANGED <<accounts, file, reader, threads>>

\* Save: the create fails and nothing is written, or the registry is encoded.
Save ==
    \/ /\ last' = Call("Save", "", 0, 0, 0, 0, 0, "IOError")
       /\ UNCHANGED <<heap, accounts, file, calls, reader, threads>>
    \/ \E order \in Orders(DOMAIN accounts.map) :
           LET f == SaveOp(file, accounts, heap, order)
           IN /\ OneStaleLayer(file, f)
              /\ file' = f
              /\ last' = Call("Save", "", 0, 0, 0, 0, 0, "nil")
              /\ UNCHANGED <<heap, accounts, calls, reader, threads>>

\* Load: the open fails for another reason than a missing file, or the
\* file is missing, or the snapshot is decoded into accounts.
Load(Max) ==
    \/ /\ file.exists
       /\ last' = Call("Load", "", 0, 0, 0, 0, 0, "IOError")
       /\ UNCHANGED <<heap, accounts, file, calls, reader, threads>>
    \/ LET r == LoadOp(file, accounts, heap)
       IN /\ Len(r.heap) <= Max
          /\ heap' = r.heap
          /\ accounts' = r.accounts
          /\ last' = Call("Load", "", 0, 0, 0, 0, 0, "nil")
          /\ UNCHANGED <<file, calls, reader, threads>>

\* The process ends and another starts: the registry is nil again, no handle
\* of the old process is left, the file stays.
Restart ==
    /\ heap' = <<>>
    /\ accounts' = NilAccounts
    /\ last' = NoCall
    /\ reader' = NoReader
    /\ threads' = NoThreads
    /\ UNCHANGED <<file, calls>>

GetAccount ==
    \E s \in Names :
        LET r == GetAccountOp(accounts, s)
        IN /\ last' = Call("GetAccount", s, 0, 0, 0, r.r1, 0, r.err)
           /\ UNCHANGED <<heap, accounts, file, calls, reader, threads>>

ListAccounts ==
    \E order \in Orders(DOMAIN accounts.map) :
        /\ last' = [Call("ListAccounts", "", 0, 0, 0, 0, 0, "nil")
                        EXCEPT !.list = ListAccountsOp(accounts, heap, order)]
        /\ UNCHANGED <<heap, accounts, file, calls, reader, threads>>

\* History(a): the caller keeps the closure in place of the one it held.
History ==
    \E a \in Handles :
        /\ reader' = HistoryOp(heap, a)
        /\ last' = Call("History", "", a, 0, 0, 0, 0, "nil")
        /\ UNCHANGED <<heap, accounts, file, calls, threads>>

\* A call of the closure the caller holds.  A caller that recovers from the
\* panic of the closure goes on; at most MaxReads calls are made on one
\* closure.
Read ==
    /\ reader.held
    /\ reader.k < MaxReads
    /\ LET r == ReadOp(heap, reader)
       IN /\ reader' = r.reader
          /\ last' = [Call("Read", "", reader.a, 0, 0, r.r1, r.r2, r.err)
                          EXCEPT !.more = r.more]
    /\ UNCHANGED <<heap, accounts, file, calls, threads>>

\* go Deposit(a, m) or go Withdraw(a, m) on goroutine t.
Go(t) ==
    \E op \in {"Deposit", "Withdraw"}, a \in Handles, m \in RaceAmounts :
        /\ threads.run[t].pc = "idle"
        /\ calls < MaxRaceCalls
        /\ calls' = calls + 1
        /\ threads' =
               [run |-> [threads.run EXCEPT ![t] =
                            [Idle EXCEPT !.pc = "check", !.op = op,
                                         !.a = a, !.m = m]],
                overlapped |->
                    \/ threads.overlapped
                    \/ \E u \in Tids \ {t} :
                           /\ threads.run[u].pc # "idle"
                           /\ threads.run[u].a = a]
        /\ UNCHANGED <<heap, accounts, file, last, reader>>

\* if m < 0 { return a.Bal, err }; in Withdraw also
\* if m > a.Bal { return a.Bal, err }: the call returns, or goes on.
Check(t) ==
    LET th == threads.run[t]
        err == IF th.m < 0 THEN "InvalidAmount"
               ELSE IF th.op = "Withdraw" /\ th.m > heap[th.a].Bal
                    THEN "InsufficientFunds"
                    ELSE "nil"
    IN /\ th.pc = "check"
       /\ IF err = "nil"
          THEN /\ threads' = [threads EXCEPT !.run[t].pc = "loadBal"]
               /\ UNCHANGED last
          ELSE /\ threads' = [threads EXCEPT !.run[t] = Idle]
               /\ last' = Call(th.op, "", th.a, 0, th.m,
                                heap[th.a].Bal, 0, err)
       /\ UNCHANGED <<heap, accounts, file, calls, reader>>

\* a.Bal += m, a.Bal -= m: the load of a.Bal.
LoadBal(t) ==
    LET th == threads.run[t]
    IN /\ th.pc = "loadBal"
       /\ threads' = [threads EXCEPT !.run[t].pc = "storeBal",
                                     !.run[t].bal = heap[th.a].Bal]
       /\ UNCHANGED <<heap, accounts, file, calls, last, reader>>

\* a.Bal += m, a.Bal -= m: the store to a.Bal.
StoreBal(t) ==
    LET th == threads.run[t]
    IN /\ th.pc = "storeBal"
       /\ heap' = StoreBalOp(heap, th.a, th.bal, Delta(th))
       /\ threads' = [threads EXCEPT !.run[t].pc = "append"]
       /\ UNCHANGED <<accounts, file, calls, last, reader>>

\* history{m, a.Bal}: the load of a.Bal for the record, before or after
\* the load of a.Hist (Go leaves the order of the two operands open).
LoadRecord(t) ==
    LET th == threads.run[t]
    IN /\ th.pc \in {"append", "haveHist"}
       /\ threads' =
              [threads EXCEPT
                  !.run[t].pc = IF th.pc = "append" THEN "haveRec"
                                ELSE "storeHist",
                  !.run[t].rec = history(Delta(th), heap[th.a].Bal)]
       /\ UNCHANGED <<heap, accounts, file, calls, last, reader>>

\* append(a.Hist, ...): the load of a.Hist.
LoadHist(t) ==
    LET th == threads.run[t]
    IN /\ th.pc \in {"append", "haveRec"}
       /\ threads' =
              [threads EXCEPT
                  !.run[t].pc = IF th.pc = "append" THEN "haveHist"
                                ELSE "storeHist",
                  !.run[t].hist = heap[th.a].Hist]
       /\ UNCHANGED <<heap, accounts, file, calls, last, reader>>

\* a.Hist = append(...): the store to a.Hist.
StoreHist(t) ==
    LET th == threads.run[t]
    IN /\ th.pc = "storeHist"
       /\ heap' = StoreHistOp(heap, th.a, th.hist, th.rec)
       /\ threads' = [threads EXCEPT !.run[t].pc = "return"]
       /\ UNCHANGED <<accounts, file, calls, last, reader>>

\* return a.Bal, nil
Return(t) ==
    LET th == threads.run[t]
    IN /\ th.pc = "return"
       /\ threads' = [threads EXCEPT !.run[t] = Idle]
       /\ last' = Call(th.op, "", th.a, 0, th.m, heap[th.a].Bal, 0, "nil")
       /\ UNCHANGED <<heap, accounts, file, calls, reader>>

Ledger(Amts, Max) ==
    \/ NewAccount(Max)
    \/ Deposit(Amts, Max)
    \/ Withdraw(Amts, Max)
    \/ Transfer(Amts, Max)

\* The ledger: accounts and transactions.
Next == Ledger(Amounts, MaxCalls)

Spec == Init /\ [][Next]_vars

\* The ledger with its persistence.
NextStore ==
    \/ Ledger(StoreAmounts, MaxStoreCalls)
    \/ Save
    \/ Load(MaxStoreCalls)
    \/ Restart

SpecStore == Init /\ [][NextStore]_vars

\* The ledger with lookup, listing, history readers and Save.
NextApi ==
    \/ Ledger(StoreAmounts, MaxStoreCalls)
    \/ GetAccount
    \/ ListAccounts
    \/ History
    \/ Read
    \/ Save

SpecApi == Init /\ [][NextApi]_vars

\* Accounts, with Deposit and Withdraw called from two goroutines and no
\* synchronisation.
NextRace ==
    \/ NewAccount(MaxRaceCalls)
    \/ \E t \in Tids : Go(t)
    \/ \E t \in Tids : Check(t)
    \/ \E t \in Tids : LoadBal(t)
    \/ \E t \in Tids : StoreBal(t)
    \/ \E t \in Tids : LoadRecord(t)
    \/ \E t \in Tids : LoadHist(t)
    \/ \E t \in Tids : StoreHist(t)
    \/ \E t \in Tids : Return(t)

SpecRace == Init /\ [][NextRace]_vars

----------------------------------------------------------------------------
\* Properties of the ledger (checked under Spec)

\* The sum of the amounts of a history, in Go's int arithmetic.
RECURSIVE SumAmt(_)
SumAmt(hist) ==
    IF hist = <<>> THEN 0 ELSE Wrap(SumAmt(SubSeq(hist, 1, Len(hist) - 1))
                                    + hist[Len(hist)].Amt)

Transactions == {"Deposit", "Withdraw", "Transfer"}

\* C1: every account's balance equals the sum of the amounts of its history
\* records (in the program's int arithmetic), and the balance stored in the
\* last record, when there is one, is the account's balance.
BalanceIsHistorySum ==
    \A a \in Handles :
        /\ heap[a].Bal = SumAmt(heap[a].Hist)
        /\ heap[a].Hist # <<>> =>
               heap[a].Hist[Len(heap[a].Hist)].Bal = heap[a].Bal

\* A transfer of a positive amount from an account to itself has succeeded.
SelfTransferDone ==
    /\ last.op = "Transfer" /\ last.err = "nil"
    /\ last.a = last.b /\ last.m > 0
    /\ Len(heap[last.a].Hist) >= 2

\* C2: replaying the amounts of a history from 0 gives, at every position i,
\* the balance stored in record i, and ends at the account's balance.
ReplayReconstructsHistory ==
    \A a \in Handles :
        /\ \A i \in 1..Len(heap[a].Hist) :
               heap[a].Hist[i].Bal = SumAmt(SubSeq(heap[a].Hist, 1, i))
        /\ SumAmt(heap[a].Hist) = heap[a].Bal

FailedCallChangesNothing ==
    [][last'.op \in Transactions =>
         /\ last'.err # "nil" <=>
                \/ last'.m < 0
                \/ last'.op # "Deposit" /\ last'.m > heap[last'.a].Bal
         /\ last'.err # "nil" => heap' = heap /\ accounts' = accounts]_vars

\* A withdrawal and a transfer above the balance of an account with a
\* history have failed.
OverdrawRefused ==
    /\ last.op \in {"Withdraw", "Transfer"}
    /\ last.err = "InsufficientFunds"
    /\ last.m > 0
    /\ heap[last.a].Hist # <<>>

NewAccountRegistersFresh ==
    [][last'.op = "NewAccount" =>
         LET s == last'.s
             h == last'.r1
             old == accounts.map
             new == accounts'.map
         IN /\ last'.err = "nil"
            /\ h \notin Handles /\ h \in DOMAIN heap'
            /\ heap'[h] = [Name |-> s, Bal |-> 0, Hist |-> <<>>]
            /\ ~accounts'.isNil
            /\ DOMAIN new = DOMAIN old \cup {s}
            /\ new[s] = h
            /\ \A k \in DOMAIN old \ {s} : new[k] = old[k]
            /\ \A a \in Handles : heap'[a] = heap[a]
            /\ s \in DOMAIN old => \A k \in DOMAIN new : new[k] # old[s]
            /\ Cardinality(DOMAIN new) =
                   Cardinality(DOMAIN old) + (IF s \in DOMAIN old THEN 0 ELSE 1)]_vars

\* NewAccount has replaced an account that has a history.
AccountReplaced ==
    /\ last.op = "NewAccount"
    /\ accounts.map[last.s] = last.r1
    /\ \E a \in Handles :
           /\ a < last.r1
           /\ heap[a].Name = last.s
           /\ heap[a].Hist # <<>>

----------------------------------------------------------------------------
\* Properties of the persistence (checked under SpecStore)

\* What a registry holds: for each name, the fields of its account.
View(accts, hp) == [k \in DOMAIN accts.map |-> hp[accts.map[k]]]

\* What Load reads from file f into a registry that was cleared.
Snapshot(f) ==
    LET r == LoadOp(f, NilAccounts, <<>>) IN View(r.accounts, r.heap)

\* C7: for the registry of every reachable state, whatever the file holds and
\* in whatever order the map is encoded, Save, then the clearing of the
\* registry, then Load give a registry with the same names and, under each
\* name, the same name field, balance and history records in the same order.
SaveLoadRoundTrip ==
    \A order \in Orders(DOMAIN accounts.map) :
        Snapshot(SaveOp(file, accounts, heap, order)) = View(accounts, heap)

\* Load has restored, in a new process, an account with a balance and two
\* different history records.
RestoredAfterRestart ==
    /\ last.op = "Load" /\ last.err = "nil"
    /\ file.exists
    /\ Len(heap) = Cardinality(DOMAIN accounts.map)
    /\ \E k \in DOMAIN accounts.map :
           LET acc == heap[accounts.map[k]]
           IN /\ acc.Bal # 0
              /\ Len(acc.Hist) = 2
              /\ acc.Hist[1] # acc.Hist[2]
    /\ View(accounts, heap) = Snapshot(file)

\* C8: after a successful Load of an existing snapshot the registry holds
\* exactly the accounts of the snapshot, whatever it held before.
LoadReplacesRegistry ==
    [][(last'.op = "Load" /\ last'.err = "nil" /\ file.exists) =>
         View(accounts', heap') = Snapshot(file)]_vars

\* C9: when the file does not exist Load succeeds and the registry is empty
\* after the call, whatever it held before.
LoadOfMissingFileEmptiesRegistry ==
    [][(last'.op = "Load" /\ ~file.exists) =>
         /\ last'.err = "nil"
         /\ DOMAIN accounts'.map = {}]_vars

----------------------------------------------------------------------------
\* Lookup and the history reader

ReaderYieldsRecordsInOrder ==
    [][(last'.op = "Read" /\ reader.held /\ reader' # reader
          /\ Len(heap[reader.a].Hist) = reader.n) =>
          LET hist == heap[reader.a].Hist
              n == Len(hist)
              k == reader.k + 1
          IN /\ (n = 0 /\ k = 1) =>
                    /\ last'.err = "nil"
                    /\ last'.r1 = 0 /\ last'.r2 = 0 /\ last'.more = FALSE
             /\ (n >= 1 /\ k <= n) =>
                    /\ last'.err = "nil"
                    /\ last'.r1 = hist[k].Amt /\ last'.r2 = hist[k].Bal
                    /\ last'.more = (k < n)]_vars

\* The second call of a reader has returned the second and last record of
\* a history of two different records.
LastRecordRead ==
    /\ last.op = "Read" /\ last.err = "nil" /\ ~last.more
    /\ reader.held /\ reader.k = 2 /\ reader.n = 2
    /\ LET hist == heap[reader.a].Hist
       IN /\ Len(hist) = 2
          /\ hist[1] # hist[2]
          /\ last.r1 = hist[2].Amt /\ last.r2 = hist[2].Bal

\* C13: for every account, with an empty or a non-empty history, a call of
\* a History reader after it has returned more = false panics instead of
\* returning a value.
ReadAfterEndPanics ==
    [][(last'.op = "Read" /\ reader.held /\ reader' # reader
          /\ reader.ended) => last'.err = "panic"]_vars

----------------------------------------------------------------------------
\* What a refused transaction returns

\* C14: a Transfer of a negative amount fails with InvalidAmount, also when
\* the amount is above the source's balance, and returns the unchanged
\* balances (source, destination); a Transfer of an amount m >= 0 above the
\* source's balance fails with InsufficientFunds and returns
\* (0, source's balance): the second result is the balance of the source,
\* not of the destination.
TransferFailureResults ==
    [][last'.op = "Transfer" =>
          LET a == last'.a
              b == last'.b
              m == last'.m
          IN /\ m < 0 =>
                    /\ last'.err = "InvalidAmount"
                    /\ last'.r1 = heap[a].Bal /\ last'.r2 = heap[b].Bal
             /\ (m >= 0 /\ m > heap[a].Bal) =>
                    /\ last'.err = "InsufficientFunds"
                    /\ last'.r1 = 0 /\ last'.r2 = heap[a].Bal
             /\ last'.err # "nil" =>
                    /\ m < 0 \/ m > heap[a].Bal
                    /\ heap'[a].Bal = heap[a].Bal
                    /\ heap'[b].Bal = heap[b].Bal]_vars

\* A transfer above the source's balance has been refused where the source
\* has a balance other than 0 and other than the destination's.
RefusedTransferReturnsSourceBalance ==
    /\ last.op = "Transfer" /\ last.err = "InsufficientFunds"
    /\ last.a # last.b
    /\ heap[last.a].Bal # 0
    /\ heap[last.a].Bal # heap[last.b].Bal
    /\ last.r1 = 0 /\ last.r2 = heap[last.a].Bal

\* C15: when Deposit or Withdraw fails, the value returned with the error
\* is the account's balance, which the call has not changed.
FailedCallReturnsBalance ==
    [][(last'.op \in {"Deposit", "Withdraw"} /\ last'.err # "nil") =>
          /\ last'.r1 = heap[last'.a].Bal
          /\ heap'[last'.a].Bal = heap[last'.a].Bal]_vars

\* A withdrawal above a balance other than 0 has been refused and has
\* returned that balance.
RefusedWithdrawReturnsBalance ==
    /\ last.op = "Withdraw" /\ last.err = "InsufficientFunds"
    /\ heap[last.a].Bal # 0
    /\ last.r1 = heap[last.a].Bal

----------------------------------------------------------------------------
\* What a call leaves alone

IsPrefix(s, t) == Len(s) <= Len(t) /\ SubSeq(t, 1, Len(s)) = s

\* The accounts that a transaction was called with.
Arguments(c) ==
    IF c.op = "Transfer" THEN {c.a, c.b}
    ELSE IF c.op \in Transactions THEN {c.a}
    ELSE {}

\* C16: the history of an account handle only grows at its end: over every
\* call of Deposit, Withdraw, Transfer, NewAccount, GetAccount, History, of
\* a History reader and of Save, the history that a handle had before the
\* call is a prefix of the history it has after the call.
HistoryAppendOnly ==
    [][last'.op \in Transactions \cup
          {"NewAccount", "GetAccount", "History", "Read", "Save"} =>
          \A a \in Handles :
              /\ a \in DOMAIN heap'
              /\ IsPrefix(heap[a].Hist, heap'[a].Hist)]_vars

\* A successful transaction has appended to a history that had records.
RecordAppendedToHistory ==
    /\ last.op \in Transactions /\ last.err = "nil"
    /\ Len(heap[last.a].Hist) >= 2
    /\ heap[last.a].Hist[1] # heap[last.a].Hist[2]

\* The frame of a call, without the set of registered names: no name of an
\* account changes, and a balance or a history changes only of an account
\* that a Deposit, Withdraw or Transfer was called with.
AccountsFrame ==
    \A a \in Handles :
        /\ a \in DOMAIN heap'
        /\ heap'[a].Name = heap[a].Name
        /\ a \notin Arguments(last') =>
               /\ heap'[a].Bal = heap[a].Bal
               /\ heap'[a].Hist = heap[a].Hist

\* C17, as claimed: no name of an account changes; a balance or a history
\* changes only of an account that a Deposit, Withdraw or Transfer was
\* called with; and Deposit, Withdraw, Transfer, NewAccount of another name
\* than a registered one, GetAccount, ListAccounts, a History reader and
\* Save leave the set of registered names unchanged.
FrameWithNamesUnchanged ==
    [][/\ AccountsFrame
       /\ (\/ last'.op \in Transactions \cup
                   {"GetAccount", "ListAccounts", "History", "Read", "Save"}
           \/ /\ last'.op = "NewAccount"
              /\ DOMAIN accounts.map \ {last'.s} # {}) =>
              DOMAIN accounts'.map = DOMAIN accounts.map]_vars

\* C17, amended: the same frame, where NewAccount(s) adds s to the set of
\* registered names and leaves the account of every other name registered
\* as it was, and every other call leaves the registry unchanged.
FrameWithNameAdded ==
    [][/\ AccountsFrame
       /\ last'.op \in Transactions \cup
               {"GetAccount", "ListAccounts", "History", "Read", "Save"} =>
               accounts' = accounts
       /\ last'.op = "NewAccount" =>
              /\ DOMAIN accounts'.map = DOMAIN accounts.map \cup {last'.s}
              /\ \A k \in DOMAIN accounts.map \ {last'.s} :
                     accounts'.map[k] = accounts.map[k]]_vars

\* NewAccount has registered a second name beside an account with a
\* balance and a history.
SecondNameRegistered ==
    /\ last.op = "NewAccount"
    /\ \E k \in DOMAIN accounts.map :
           /\ k # last.s
           /\ heap[accounts.map[k]].Bal # 0
           /\ heap[accounts.map[k]].Hist # <<>>

----------------------------------------------------------------------------
\* Overdraft and conservation

\* No balance is negative: not the balance of an account, not the balance
\* stored in a record.
NonNegative(hp) ==
    \A a \in DOMAIN hp :
        /\ hp[a].Bal >= 0
        /\ \A j \in DOMAIN hp[a].Hist : hp[a].Hist[j].Bal >= 0

\* The call c, made in the state with accounts hp, adds beyond the range of
\* int: the sum of Deposit, or the credit of Transfer (made after the
\* debit, which it undoes when both are the same account).
Overflows(hp, c) ==
    /\ c.err = "nil"
    /\ \/ c.op = "Deposit" /\ hp[c.a].Bal + c.m > MaxInt
       \/ c.op = "Transfer" /\ c.a # c.b /\ hp[c.b].Bal + c.m > MaxInt

\* C19: no overdraft: as long as no call overflows, the balance of every
\* account made by NewAccount is >= 0 after every Deposit, Withdraw and
\* Transfer, and so is the balance stored in every history record.
NoOverdraft ==
    [][(NonNegative(heap) /\ ~Overflows(heap, last')) =>
          NonNegative(heap')]_vars

\* A deposit has filled an account with a history up to the largest int,
\* with no overflow, and no balance is negative.
LargestBalanceReached ==
    /\ last.op = "Deposit" /\ last.err = "nil" /\ last.m > 0
    /\ heap[last.a].Bal = MaxInt
    /\ Len(heap[last.a].Hist) >= 2
    /\ NonNegative(heap)

\* The sum, in int arithmetic, of the balances of all accounts.
RECURSIVE Total(_)
Total(hp) ==
    IF hp = <<>> THEN 0
    ELSE Wrap(Total(SubSeq(hp, 1, Len(hp) - 1)) + hp[Len(hp)].Bal)

\* C20: conservation of money: every Transfer, successful or failing, also
\* with the same account as source and destination, leaves the sum of the
\* balances of all accounts unchanged; a successful Deposit of m increases
\* it by m and a successful Withdraw of m decreases it by m (in int
\* arithmetic).  From one call to the next a transfer is applied on both
\* sides or on none: after a successful Transfer between two accounts the
\* source is debited and has its record and the destination is credited
\* and has its record, after a failing one nothing has changed.
MoneyConserved ==
    [][last'.op \in Transactions =>
          LET a == last'.a
              b == last'.b
              m == last'.m
              ok == last'.err = "nil"
          IN /\ last'.op = "Transfer" => Total(heap') = Total(heap)
             /\ (last'.op = "Deposit" /\ ok) =>
                    Total(heap') = Wrap(Total(heap) + m)
             /\ (last'.op = "Withdraw" /\ ok) =>
                    Total(heap') = Wrap(Total(heap) - m)
             /\ (last'.op = "Transfer" /\ ~ok) => heap' = heap
             /\ (last'.op = "Transfer" /\ ok /\ a # b) =>
                    /\ heap'[a].Bal = Wrap(heap[a].Bal - m)
                    /\ heap'[b].Bal = Wrap(heap[b].Bal + m)
                    /\ Len(heap'[a].Hist) = Len(heap[a].Hist) + 1
                    /\ Len(heap'[b].Hist) = Len(heap[b].Hist) + 1]_vars

\* A transfer has moved the whole balance of one account to another, which
\* now holds all the money.
WholeBalanceTransferred ==
    /\ last.op = "Transfer" /\ last.err = "nil"
    /\ last.a # last.b
    /\ last.m > 0
    /\ heap[last.a].Bal = 0
    /\ heap[last.b].Bal = last.m
    /\ Total(heap) = last.m

----------------------------------------------------------------------------
\* Calls from two goroutines

\* No call is running.
Quiet == \A t \in Tids : threads.run[t].pc = "idle"

\* C18: concurrent use without synchronisation is unsafe.  Calls of Deposit
\* and Withdraw on one account keep its balance equal to the sum of its
\* history amounts as long as they run one after the other; when the reads
\* and writes of two calls on the same account interleave, a state is
\* reached (UpdateLost) in which an update is lost and the balance is not
\* the sum of the history amounts.
OnlyOverlappingCallsBreakTheSum ==
    (Quiet /\ ~threads.overlapped) =>
        \A a \in Handles : heap[a].Bal = SumAmt(heap[a].Hist)

\* Two deposits of 1 on the same new account have both returned without
\* error, one of them has returned 1 last, the balance is 1 and it is not
\* the sum of the amounts of the two records.
UpdateLost ==
    /\ Quiet /\ threads.overlapped
    /\ last.op = "Deposit" /\ last.err = "nil" /\ last.r1 = 1
    /\ LET acc == heap[last.a]
       IN /\ acc.Bal = 1
          /\ Len(acc.Hist) = 2
          /\ acc.Hist[1].Amt = 1 /\ acc.Hist[2].Amt = 1
          /\ acc.Bal # SumAmt(acc.Hist)
====
